---- MODULE Spec2Model ----
(***************************************************************************)
(* A model of kvrs (libkvrs): the data-file prefix check, the index        *)
(* loader, store initialisation, the two ways of opening a store and the   *)
(* command handlers of the kvrs binary.                                    *)
(*                                                                         *)
(* A u64 is kept as four 16-bit limbs, most significant first, so that     *)
(* every value of the type (IDENTIFIER and u64::MAX included) stays        *)
(* inside the integers TLC computes with.  Bytes are integers 0..255 and   *)
(* a Vec<u8> is a sequence of bytes.                                       *)
(***************************************************************************)
EXTENDS Integers, Sequences, FiniteSets, TLC

VARIABLES
    data,      \* the Vec<u8> / file content an operation is handed
    st,        \* the Storage handle held by the caller (NoStore when none)
    left,      \* the second handle of test_initialize (the reopened store)
    res,       \* the result of the last operation
    op,        \* the last operation
    arg,       \* the key and value the last command handler was called with
    calls,     \* the private functions the last open ran, in order
    lastset,   \* the key and value of the last `set` command issued
    pc         \* "idle" | "returned" | "reopened"

vars == <<data, st, left, res, op, arg, calls, lastset, pc>>

(***************************************************************************)
(* u64 arithmetic on limbs                                                 *)
(***************************************************************************)
U64FromNat(n) == <<0, 0, (n \div 65536), (n % 65536)>>

U64Max == <<65535, 65535, 65535, 65535>>

\* `x as usize` yields a number the model can count with
U64Fits(u) == u[1] = 0 /\ u[2] = 0 /\ u[3] < 32768

U64ToNat(u) == (u[3] * 65536) + u[4]

\* value > isize::MAX
U64TopBit(u) == u[1] >= 32768

U64Lt128(u) == u[1] = 0 /\ u[2] = 0 /\ u[3] = 0 /\ u[4] < 128

\* value >> 7
U64Shr7(u) ==
    << u[1] \div 128,
       (u[2] \div 128) + ((u[1] % 128) * 512),
       (u[3] \div 128) + ((u[2] % 128) * 512),
       (u[4] \div 128) + ((u[3] % 128) * 512) >>

\* (value << 7) | carry, for a 7-bit carry
U64Shl7Or(u, carry) ==
    << ((u[1] * 128) % 65536) + (u[2] \div 512),
       ((u[2] * 128) % 65536) + (u[3] \div 512),
       ((u[3] * 128) % 65536) + (u[4] \div 512),
       ((u[4] * 128) % 65536) + carry >>

\* u64::from_be_bytes / ReadBytesExt::read_u64::<BigEndian> on 8 bytes
U64FromBe(b) ==
    << (b[1] * 256) + b[2], (b[3] * 256) + b[4], (b[5] * 256) + b[6], (b[7] * 256) + b[8] >>

\* u64::to_be_bytes / WriteBytesExt::write_u64::<BigEndian>
U64ToBe(u) ==
    << (u[1] \div 256), (u[1] % 256), (u[2] \div 256), (u[2] % 256),
       (u[3] \div 256), (u[3] % 256), (u[4] \div 256), (u[4] % 256) >>

(***************************************************************************)
(* Constants of lib.rs                                                     *)
(***************************************************************************)
\* 14175028930806269345 = 50359 * 2^48 + 53685 * 2^32 + 50583 * 2^16 + 50593
IDENTIFIER == <<50359, 53685, 50583, 50593>>

OLDEST_VERSION == 1

(***************************************************************************)
(* StorageError and results                                                *)
(***************************************************************************)
NoErr == [kind |-> "", detail |-> "", n |-> 0]

IO(k) == [kind |-> "IO", detail |-> k, n |-> 0]

MissedIdentifier == [kind |-> "DataFormat", detail |-> "MissedIdentifier", n |-> 0]

IncorrectVersion(v) == [kind |-> "DataFormat", detail |-> "IncorrectVersion", n |-> v]

FailedLoadIndex == [kind |-> "FailedLoadIndex", detail |-> "", n |-> 0]

FailedSaveIndex == [kind |-> "FailedSaveIndex", detail |-> "", n |-> 0]

\* a result is tagged Ok, Err, Panic (an unwinding panic) or Abort (the
\* process is aborted by the allocator); `cur` is the stream as the call left it
NoCur == [kind |-> "", buf |-> <<>>, pos |-> <<0, 0, 0, 0>>]

Ok(v, c) == [tag |-> "Ok", val |-> v, err |-> NoErr, cur |-> c]

Err(e) == [tag |-> "Err", val |-> <<>>, err |-> e, cur |-> NoCur]

Panic(msg) == [tag |-> "Panic", val |-> <<>>, err |-> [NoErr EXCEPT !.detail = msg], cur |-> NoCur]

Abort == [tag |-> "Abort", val |-> <<>>, err |-> NoErr, cur |-> NoCur]

NoRes == [tag |-> "None", val |-> <<>>, err |-> NoErr, cur |-> NoCur]

(***************************************************************************)
(* The backend: Cursor<Vec<u8>> or File, as Read + Seek + Write            *)
(***************************************************************************)
Cursor(buf) == [kind |-> "vec", buf |-> buf, pos |-> <<0, 0, 0, 0>>]

FileOf(buf) == [kind |-> "file", buf |-> buf, pos |-> <<0, 0, 0, 0>>]

\* the bytes left to read: from min(pos, len) to the end
Remaining(c) ==
    IF U64Fits(c.pos) /\ U64ToNat(c.pos) < Len(c.buf)
    THEN SubSeq(c.buf, U64ToNat(c.pos) + 1, Len(c.buf))
    ELSE <<>>

\* Read::read_exact of n bytes; a short stream is ErrorKind::UnexpectedEof
ReadExact(c, n) ==
    IF Len(Remaining(c)) >= n
    THEN Ok(SubSeq(Remaining(c), 1, n),
            [c EXCEPT !.pos = U64FromNat(U64ToNat(c.pos) + n)])
    ELSE Err(IO("UnexpectedEof"))

\* Seek::seek(SeekFrom::Start(u)): a Cursor takes any offset; lseek on a file
\* refuses one above i64::MAX with EINVAL
SeekStart(c, u) ==
    IF c.kind = "file" /\ U64TopBit(u)
    THEN Err(IO("InvalidInput"))
    ELSE Ok(u, [c EXCEPT !.pos = u])

\* Write::write_all at the current position of a stream that is being
\* filled from its start (pos = len)
WriteAll(c, bytes) ==
    [c EXCEPT !.buf = SubSeq(c.buf, 1, U64ToNat(c.pos)) \o bytes
                      \o SubSeq(c.buf, U64ToNat(c.pos) + Len(bytes) + 1, Len(c.buf)),
              !.pos = U64FromNat(U64ToNat(c.pos) + Len(bytes))]

(***************************************************************************)
(* Storage::check_prefix                                                   *)
(***************************************************************************)
\* check_prefix with the version test off by one: version 1 is refused
check_prefix_ge(c) ==
    LET ind == ReadExact(c, 8) IN
    IF ind.tag # "Ok" THEN Err(ind.err)
    ELSE IF U64FromBe(ind.val) # IDENTIFIER THEN Err(MissedIdentifier)
    ELSE LET ver == ReadExact(ind.cur, 1) IN
         IF ver.tag # "Ok" THEN Err(ver.err)
         ELSE IF ver.val[1] >= OLDEST_VERSION THEN Err(IncorrectVersion(ver.val[1]))
         ELSE Ok(ver.val[1], ver.cur)

check_prefix(c) ==
    LET ind == ReadExact(c, 8) IN
    IF ind.tag # "Ok" THEN Err(ind.err)
    ELSE IF U64FromBe(ind.val) # IDENTIFIER THEN Err(MissedIdentifier)
    ELSE LET ver == ReadExact(ind.cur, 1) IN
         IF ver.tag # "Ok" THEN Err(ver.err)
         ELSE IF ver.val[1] > OLDEST_VERSION THEN Err(IncorrectVersion(ver.val[1]))
         ELSE Ok(ver.val[1], ver.cur)

(***************************************************************************)
(* postcard: the wire format of an Index (IndexMap<Vec<u8>, u64>) and of   *)
(* a Vec<VacantBlock>.  An Index is the sequence of its <<key, position>>  *)
(* entries in insertion order, keys distinct.                              *)
(***************************************************************************)
\* a u64 or usize as a varint: 7 bits a byte, least significant first, the
\* top bit of a byte set when more follow
RECURSIVE VarintU64(_)
VarintU64(u) ==
    IF U64Lt128(u) THEN << u[4] % 128 >>
    ELSE << (u[4] % 128) + 128 >> \o VarintU64(U64Shr7(u))

VarintUsize(n) == VarintU64(U64FromNat(n))

\* serde's Vec<u8>: the length, then the bytes
SerKey(key) == VarintUsize(Len(key)) \o key

RECURSIVE SerEntries(_)
SerEntries(ix) ==
    IF ix = <<>> THEN <<>>
    ELSE SerKey(ix[1][1]) \o VarintU64(ix[1][2]) \o SerEntries(Tail(ix))

\* postcard::to_allocvec(&self.index): the number of entries, then each
\* entry's key and value
to_allocvec_index(ix) == VarintUsize(Len(ix)) \o SerEntries(ix)

RECURSIVE SerBlocks(_)
SerBlocks(vbs) ==
    IF vbs = <<>> THEN <<>>
    ELSE VarintU64(vbs[1].pos) \o VarintU64(vbs[1].size) \o SerBlocks(Tail(vbs))

\* postcard::to_allocvec(&Vec::<VacantBlock>::new()), for any block list
to_allocvec_vb_list(vbs) == VarintUsize(Len(vbs)) \o SerBlocks(vbs)

\* a parse step's outcome: ok, the value read and the bytes left
POk(v, rest) == [ok |-> TRUE, val |-> v, rest |-> rest]

PErr == [ok |-> FALSE, val |-> <<>>, rest |-> <<>>]

\* postcard's try_take_varint_u64 from its i-th byte on: at most 10 bytes, the
\* 10th at most 1 (DeserializeBadVarint otherwise), DeserializeUnexpectedEnd
\* when the bytes run out
\* try_take_varint_u64 giving up one byte early: a varint of ten bytes is refused
RECURSIVE TakeVarintFrom9(_, _)
TakeVarintFrom9(bs, i) ==
    IF i >= 9 \/ bs = <<>> THEN PErr
    ELSE IF bs[1] < 128 THEN POk(<<0, 0, 0, bs[1]>>, Tail(bs))
         ELSE LET more == TakeVarintFrom9(Tail(bs), i + 1) IN
              IF ~more.ok THEN PErr
              ELSE POk(U64Shl7Or(more.val, bs[1] % 128), more.rest)

RECURSIVE TakeVarintFrom(_, _)
TakeVarintFrom(bs, i) ==
    IF i >= 10 \/ bs = <<>> THEN PErr
    ELSE IF bs[1] < 128
         THEN IF i = 9 /\ bs[1] > 1 THEN PErr
              ELSE POk(<<0, 0, 0, bs[1]>>, Tail(bs))
         ELSE LET more == TakeVarintFrom(Tail(bs), i + 1) IN
              IF ~more.ok THEN PErr
              ELSE POk(U64Shl7Or(more.val, bs[1] % 128), more.rest)

TakeVarint(bs) == TakeVarintFrom(bs, 0)

\* a Vec<u8>: its length, then that many bytes, one by one
TakeKey(bs) ==
    LET n == TakeVarint(bs) IN
    IF ~n.ok THEN PErr
    ELSE IF ~U64Fits(n.val) \/ U64ToNat(n.val) > Len(n.rest) THEN PErr
    ELSE POk(SubSeq(n.rest, 1, U64ToNat(n.val)),
             SubSeq(n.rest, U64ToNat(n.val) + 1, Len(n.rest)))

\* IndexMap::insert: a key already there keeps its place and takes the new value
RECURSIVE IndexInsert(_, _, _)
IndexInsert(ix, k, v) ==
    IF ix = <<>> THEN << <<k, v>> >>
    ELSE IF ix[1][1] = k THEN << <<k, v>> >> \o Tail(ix)
    ELSE << ix[1] >> \o IndexInsert(Tail(ix), k, v)

\* the n entries of the map, inserted as they are read
RECURSIVE TakeEntries(_, _, _)
TakeEntries(bs, n, acc) ==
    IF n = 0 THEN POk(acc, bs)
    ELSE LET k == TakeKey(bs) IN
         IF ~k.ok THEN PErr
         ELSE LET v == TakeVarint(k.rest) IN
              IF ~v.ok THEN PErr
              ELSE TakeEntries(v.rest, n - 1, IndexInsert(acc, k.val, v.val))

\* postcard::from_bytes::<Index>: bytes after the last entry are not looked
\* at.  An entry takes at least 2 bytes, so a count beyond the bytes there
\* are ends as one past them does: the bytes run out.
from_bytes_index(bs) ==
    LET n == TakeVarint(bs) IN
    IF ~n.ok THEN PErr
    ELSE TakeEntries(n.rest,
                     IF U64Fits(n.val) /\ U64ToNat(n.val) <= Len(n.rest)
                     THEN U64ToNat(n.val) ELSE Len(n.rest) + 1,
                     <<>>)

\* IndexMap's PartialEq: the same keys with the same values, in any order
IndexEq(a, b) == {a[i] : i \in DOMAIN a} = {b[i] : i \in DOMAIN b}

\* postcard::from_bytes::<Vec<VacantBlock>>: the number of blocks, then each
\* block's pos and size
RECURSIVE TakeBlocks(_, _, _)
TakeBlocks(bs, n, acc) ==
    IF n = 0 THEN POk(acc, bs)
    ELSE LET pos == TakeVarint(bs) IN
         IF ~pos.ok THEN PErr
         ELSE LET size == TakeVarint(pos.rest) IN
              IF ~size.ok THEN PErr
              ELSE TakeBlocks(size.rest, n - 1,
                              Append(acc, [pos |-> pos.val, size |-> size.val]))

from_bytes_vb_list(bs) ==
    LET n == TakeVarint(bs) IN
    IF ~n.ok THEN PErr
    ELSE TakeBlocks(n.rest,
                    IF U64Fits(n.val) /\ U64ToNat(n.val) <= Len(n.rest)
                    THEN U64ToNat(n.val) ELSE Len(n.rest) + 1,
                    <<>>)

\* load_index reporting a short payload as FailedLoadIndex
load_index_eof_as_failed(c) ==
    LET s9 == SeekStart(c, U64FromNat(9)) IN
    IF s9.tag # "Ok" THEN {Err(s9.err)}
    ELSE LET index_pos == ReadExact(s9.cur, 8) IN
    IF index_pos.tag # "Ok" THEN {Err(index_pos.err)}
    ELSE LET sp == SeekStart(index_pos.cur, U64FromBe(index_pos.val)) IN
    IF sp.tag # "Ok" THEN {Err(sp.err)}
    ELSE LET index_len == ReadExact(sp.cur, 8) IN
    IF index_len.tag # "Ok" THEN {Err(index_len.err)}
    ELSE LET len == U64FromBe(index_len.val) IN
    IF U64TopBit(len) THEN {Panic("capacity overflow")}
    ELSE IF ~U64Fits(len) THEN {Abort, Err(FailedLoadIndex)}
    ELSE LET buf == ReadExact(index_len.cur, U64ToNat(len)) IN
    IF buf.tag # "Ok" THEN {Err(FailedLoadIndex)}
    ELSE LET index == from_bytes_index(buf.val) IN
    IF ~index.ok THEN {Err(FailedLoadIndex)}
    ELSE {Ok(index.val, buf.cur)}

(***************************************************************************)
(* Storage::load_index.  vec![0; index_len as usize] panics ("capacity     *)
(* overflow") for a length above isize::MAX; for a length beyond what the  *)
(* model counts with (2^31 and more) the allocation either aborts the      *)
(* process or is granted, so both outcomes are kept.                       *)
(***************************************************************************)
load_index(c) ==
    LET s9 == SeekStart(c, U64FromNat(9)) IN
    IF s9.tag # "Ok" THEN {Err(s9.err)}
    ELSE LET index_pos == ReadExact(s9.cur, 8) IN
    IF index_pos.tag # "Ok" THEN {Err(index_pos.err)}
    ELSE LET sp == SeekStart(index_pos.cur, U64FromBe(index_pos.val)) IN
    IF sp.tag # "Ok" THEN {Err(sp.err)}
    ELSE LET index_len == ReadExact(sp.cur, 8) IN
    IF index_len.tag # "Ok" THEN {Err(index_len.err)}
    ELSE LET len == U64FromBe(index_len.val) IN
    IF U64TopBit(len) THEN {Panic("capacity overflow")}
    ELSE IF ~U64Fits(len) THEN {Abort, Err(IO("UnexpectedEof"))}
    ELSE LET buf == ReadExact(index_len.cur, U64ToNat(len)) IN
    IF buf.tag # "Ok" THEN {Err(buf.err)}
    ELSE LET index == from_bytes_index(buf.val) IN
    IF ~index.ok THEN {Err(FailedLoadIndex)}
    ELSE {Ok(index.val, buf.cur)}

(***************************************************************************)
(* Storage, Storage::initialize and the constructors                       *)
(***************************************************************************)
Storage(inner, index, version) == [inner |-> inner, index |-> index, version |-> version]

NoStore == [inner |-> NoCur, index |-> <<>>, version |-> 255]

\* Storage's derived PartialEq, with IndexMap's for the index
StorageEq(a, b) ==
    a.inner = b.inner /\ IndexEq(a.index, b.index) /\ a.version = b.version

\* the vacant blocks list position without the 8 bytes of the index length
VbListPosNoLen(ser_index) == 25 + Len(ser_index)

\* the offset written as the vacant blocks list position
VbListPos(ser_index) == 33 + Len(ser_index)

\* initialize recording the index at 17, where the header has not ended yet
initialize_index_at_17(self) ==
    LET ser_index == to_allocvec_index(self.index)
        ser_vb_list == to_allocvec_vb_list(<<>>)
        w1 == WriteAll(self.inner, U64ToBe(IDENTIFIER))
        w2 == WriteAll(w1, <<self.version>>)
        w3 == WriteAll(w2, U64ToBe(U64FromNat(17)))
        w4 == WriteAll(w3, U64ToBe(U64FromNat(33 + Len(ser_index))))
        w5 == WriteAll(w4, U64ToBe(U64FromNat(Len(ser_index))))
        w6 == WriteAll(w5, ser_index)
        w7 == WriteAll(w6, U64ToBe(U64FromNat(Len(ser_vb_list))))
        w8 == WriteAll(w7, ser_vb_list)
    IN [self EXCEPT !.inner = w8]

initialize(self) ==
    LET ser_index == to_allocvec_index(self.index)
        ser_vb_list == to_allocvec_vb_list(<<>>)
        w1 == WriteAll(self.inner, U64ToBe(IDENTIFIER))
        w2 == WriteAll(w1, <<self.version>>)
        w3 == WriteAll(w2, U64ToBe(U64FromNat(25)))
        w4 == WriteAll(w3, U64ToBe(U64FromNat(VbListPos(ser_index))))
        w5 == WriteAll(w4, U64ToBe(U64FromNat(Len(ser_index))))
        w6 == WriteAll(w5, ser_index)
        w7 == WriteAll(w6, U64ToBe(U64FromNat(Len(ser_vb_list))))
        w8 == WriteAll(w7, ser_vb_list)
    IN [self EXCEPT !.inner = w8]

new_vectored == Ok(initialize(Storage(Cursor(<<>>), <<>>, OLDEST_VERSION)), NoCur)

\* File::create truncates the file, whatever it held
new_file == Ok(initialize(Storage(FileOf(<<>>), <<>>, OLDEST_VERSION)), NoCur)

\* the error the specification names for a vacant blocks list that cannot be loaded
FailedLoadFreeList == [kind |-> "FailedLoadFreeList", detail |-> "", n |-> 0]

\* an open that also loads the vacant blocks list, from the offset at byte 17
OpenLoadingVbList(stream) ==
    LET version == check_prefix(stream) IN
    IF version.tag # "Ok"
    THEN {[res |-> Err(version.err), calls |-> <<"check_prefix">>]}
    ELSE {[res |-> IF index.tag # "Ok" THEN index
                   ELSE LET s17 == SeekStart(index.cur, U64FromNat(17))
                            pos == ReadExact(s17.cur, 8)
                            sp == IF pos.tag = "Ok"
                                  THEN SeekStart(pos.cur, U64FromBe(pos.val)) ELSE pos
                            len == IF sp.tag = "Ok" THEN ReadExact(sp.cur, 8) ELSE sp
                            buf == IF len.tag = "Ok" /\ U64Fits(U64FromBe(len.val))
                                   THEN ReadExact(len.cur, U64ToNat(U64FromBe(len.val)))
                                   ELSE Err(IO("UnexpectedEof"))
                        IN IF buf.tag = "Ok" /\ from_bytes_vb_list(buf.val).ok
                           THEN Ok(Storage(buf.cur, index.val, version.val), NoCur)
                           ELSE Err(FailedLoadFreeList),
           calls |-> <<"check_prefix", "load_index", "load_vb_list">>]
          : index \in load_index(version.cur)}

\* an open that loads the index before it checks the prefix
OpenIndexFirst(stream) ==
    {[res |-> IF index.tag # "Ok" THEN index
              ELSE LET version == check_prefix(stream) IN
                   IF version.tag # "Ok" THEN Err(version.err)
                   ELSE Ok(Storage(index.cur, index.val, version.val), NoCur),
      calls |-> <<"load_index", "check_prefix">>] : index \in load_index(stream)}

\* from_vec and from_file: check_prefix, then load_index, on one stream.  An
\* outcome is the result and the private functions that ran.
Open(stream) ==
    LET version == check_prefix(stream) IN
    IF version.tag # "Ok"
    THEN {[res |-> Err(version.err), calls |-> <<"check_prefix">>]}
    ELSE {[res |-> IF index.tag = "Ok"
                   THEN Ok(Storage(index.cur, index.val, version.val), NoCur)
                   ELSE index,
           calls |-> <<"check_prefix", "load_index">>] : index \in load_index(version.cur)}

from_vec(buf) == Open(Cursor(buf))

\* the file is opened for reading and appending, and created when missing
from_file(content) == Open(FileOf(content))

(***************************************************************************)
(* The command handlers of the kvrs binary (handlers.rs) and its main      *)
(* (kvrs.rs): each is `todo!()`, which panics with "not yet implemented"   *)
(* before anything is read, opened or written.                             *)
(***************************************************************************)
get_handler(args) == Panic("not yet implemented")

set_handler(args) == Panic("not yet implemented")

update_handler(args) == Panic("not yet implemented")

remove_handler(args) == Panic("not yet implemented")

\* HANDLERS: the operation names and their handlers
HANDLERS(name, args) ==
    CASE name = "get" -> get_handler(args)
      [] name = "set" -> set_handler(args)
      [] name = "update" -> update_handler(args)
      [] name = "remove" -> remove_handler(args)

(***************************************************************************)
(* Inputs: the byte streams the operations are run on                      *)
(***************************************************************************)
MaxIndexLen == 2

\* the identifier's bytes, as the tests write them
IdentBytes == <<196, 183, 209, 181, 197, 151, 197, 161>>

\* test_check_prefix's wrong identifier, and the identifier with its last byte off
Idents == {IdentBytes, <<16, 32, 48, 64, 80, 96, 112, 128>>,
           <<196, 183, 209, 181, 197, 151, 197, 160>>}

Versions == {0, 1, 2, 123}

\* test_check_prefix's trailing bytes
TailData == <<73, 42, 255, 0, 0, 123, 64, 90, 17, 48, 33>>

\* a well-formed section holding the empty vacant blocks list
EmptyVbSection == U64ToBe(U64FromNat(1)) \o to_allocvec_vb_list(<<>>)

Tails == {<<>>, TailData, EmptyVbSection}

\* test_load_index's keys and the empty key; a position of one varint byte
\* and the position of ten
Keys == {<<1, 2, 3>>, <<10>>, <<>>}

Positions == {U64FromNat(123), U64Max}

RECURSIVE IndicesOfLen(_)
IndicesOfLen(n) ==
    IF n = 0 THEN {<<>>}
    ELSE {Append(ix, <<k, v>>) :
            ix \in {i \in IndicesOfLen(n - 1) : TRUE}, k \in Keys, v \in Positions}

HasKey(ix, k) == \E i \in DOMAIN ix : ix[i][1] = k

DistinctKeys(ix) == \A i, j \in DOMAIN ix : ix[i][1] = ix[j][1] => i = j

Indices == UNION {{ix \in IndicesOfLen(n) : DistinctKeys(ix)} : n \in 0..MaxIndexLen}

SmallIndices == {<<>>, << <<(<<1, 2, 3>>), U64FromNat(123)>> >>}

Front(sq) == SubSeq(sq, 1, Len(sq) - 1)

\* an index section: the recorded length and the bytes after it
Section(len, payload) == [len |-> len, payload |-> payload]

\* an index as serialized; with its last byte missing from the stream; and
\* cut short with the recorded length following
SectionsOf(ix) ==
    LET ser == to_allocvec_index(ix) IN
    { Section(U64FromNat(Len(ser)), ser),
      Section(U64FromNat(Len(ser)), Front(ser)),
      Section(U64FromNat(Len(ser) - 1), Front(ser)) }

\* payloads no index serializes to: a varint of ten continued bytes, a tenth
\* varint byte above 1, a padded varint, a key twice, and lengths no buffer has
OddSections ==
    { Section(U64FromNat(12), <<1, 0, 255, 255, 255, 255, 255, 255, 255, 255, 255, 255>>),
      Section(U64FromNat(12), <<1, 0, 255, 255, 255, 255, 255, 255, 255, 255, 255, 2>>),
      Section(U64FromNat(4), <<1, 0, 128, 0>>),
      Section(U64FromNat(7), <<2, 1, 10, 123, 1, 10, 20>>),
      Section(U64Max, <<0>>),
      Section(<<0, 0, 32768, 0>>, <<0>>) }

Sections(ixs) == UNION {SectionsOf(ix) : ix \in ixs} \cup OddSections

\* where the header says the index section is, and what lies between the
\* header's first 17 bytes and the section: nothing (test_load_index) or the
\* vacant blocks list position (the section's end, or an offset out of range)
Layouts ==
    { [p |-> "here", f |-> "none"], [p |-> "here", f |-> "end"],
      [p |-> "here", f |-> "far"],
      [p |-> "far", f |-> "end"], [p |-> "max", f |-> "end"] }

FarOffset == U64FromNat(1000)

Build(ident, version, lay, sec, tail) ==
    LET start == IF lay.f = "none" THEN 17 ELSE 25
        p == CASE lay.p = "here" -> U64FromNat(start)
               [] lay.p = "far" -> FarOffset
               [] lay.p = "max" -> U64Max
        gap == CASE lay.f = "none" -> <<>>
                 [] lay.f = "end" -> U64ToBe(U64FromNat(start + 8 + Len(sec.payload)))
                 [] lay.f = "far" -> U64ToBe(FarOffset)
    IN ident \o <<version>> \o U64ToBe(p) \o gap \o U64ToBe(sec.len) \o sec.payload \o tail

\* every section behind a prefix that passes, a few behind every other prefix,
\* and streams that end inside the prefix
Inputs ==
    {Build(IdentBytes, v, lay, sec, tail) :
        v \in {0, 1}, lay \in Layouts, sec \in Sections(Indices), tail \in Tails}
    \cup {Build(id, v, lay, sec, tail) :
        id \in Idents, v \in Versions, lay \in Layouts,
        sec \in Sections(SmallIndices), tail \in Tails}
    \cup {<<>>, SubSeq(IdentBytes, 1, 5), IdentBytes}

\* the keys and values given on the command line
CliKeys == Keys

CliValues == {<<7>>, <<8, 9>>}

NoArg == [key |-> <<>>, value |-> <<>>, given |-> FALSE]

Args(k, v) == [key |-> k, value |-> v, given |-> TRUE]

(***************************************************************************)
(* The state machine                                                       *)
(***************************************************************************)
Start(d) ==
    /\ data = d
    /\ st = NoStore
    /\ left = NoStore
    /\ res = NoRes
    /\ op = "none"
    /\ arg = NoArg
    /\ calls = <<>>
    /\ lastset = NoArg
    /\ pc = "idle"

Init == \E d \in Inputs : Start(d)

\* Storage::check_prefix(&mut Cursor::new(data))
CheckPrefix ==
    /\ pc = "idle"
    /\ res' = check_prefix(Cursor(data))
    /\ op' = "check_prefix"
    /\ calls' = <<"check_prefix">>
    /\ pc' = "returned"
    /\ UNCHANGED <<data, st, left, arg, lastset>>

\* Storage::load_index(&mut Cursor::new(data))
LoadIndex ==
    /\ pc = "idle"
    /\ res' \in load_index(Cursor(data))
    /\ op' = "load_index"
    /\ calls' = <<"load_index">>
    /\ pc' = "returned"
    /\ UNCHANGED <<data, st, left, arg, lastset>>

Opened(outcome, name) ==
    /\ res' = outcome.res
    /\ st' = IF outcome.res.tag = "Ok" THEN outcome.res.val ELSE NoStore
    /\ calls' = outcome.calls
    /\ op' = name
    /\ pc' = "returned"
    /\ UNCHANGED <<data, left, arg, lastset>>

\* Storage::from_vec(data)
FromVec ==
    /\ pc = "idle"
    /\ st = NoStore
    /\ \E outcome \in from_vec(data) : Opened(outcome, "from_vec")

\* Storage::from_file(path), the file holding data; the file opens and its
\* bytes are read without an error of the device
FromFile ==
    /\ pc = "idle"
    /\ st = NoStore
    /\ \E outcome \in from_file(data) : Opened(outcome, "from_file")

\* Storage::new_vectored(): the store is built on an empty Vec
NewVectored ==
    /\ pc = "idle"
    /\ st = NoStore
    /\ data = <<>>
    /\ res' = new_vectored
    /\ st' = new_vectored.val
    /\ calls' = <<"initialize">>
    /\ op' = "new_vectored"
    /\ pc' = "returned"
    /\ UNCHANGED <<data, left, arg, lastset>>

\* Storage::new_file(path): the file now holds what initialize wrote
NewFile ==
    /\ pc = "idle"
    /\ st = NoStore
    /\ res' = new_file
    /\ st' = new_file.val
    /\ data' = new_file.val.inner.buf
    /\ calls' = <<"initialize">>
    /\ op' = "new_file"
    /\ pc' = "returned"
    /\ UNCHANGED <<left, arg, lastset>>

Rewind(s) == [s EXCEPT !.inner = SeekStart(s.inner, U64FromNat(0)).cur]

\* test_initialize's second half: from_vec on a clone of the store's bytes,
\* then both streams are sought to their start
Reopen ==
    /\ pc = "returned"
    /\ op \in {"new_vectored", "from_vec"}
    /\ res.tag = "Ok"
    /\ \E outcome \in from_vec(st.inner.buf) :
          /\ res' = outcome.res
          /\ left' = IF outcome.res.tag = "Ok" THEN Rewind(outcome.res.val) ELSE NoStore
          /\ calls' = calls \o outcome.calls
    /\ st' = Rewind(st)
    /\ op' = "reopen"
    /\ pc' = "reopened"
    /\ UNCHANGED <<data, arg, lastset>>

\* one run of the kvrs binary on a command: the handler panics
Handler(name, k, v) ==
    /\ pc = "idle"
    /\ st = NoStore
    /\ res' = HANDLERS(name, Args(k, v))
    /\ op' = name
    /\ arg' = Args(k, v)
    /\ lastset' = IF name = "set" THEN Args(k, v) ELSE lastset
    /\ calls' = <<>>
    /\ pc' = "returned"
    /\ UNCHANGED <<data, st, left>>

Get == \E k \in CliKeys : Handler("get", k, <<>>)

Set == \E k \in CliKeys, v \in CliValues : Handler("set", k, v)

Update == \E k \in CliKeys, v \in CliValues : Handler("update", k, v)

Remove == \E k \in CliKeys : Handler("remove", k, <<>>)

\* the process ends: its handle is dropped, the file stays
Exit ==
    /\ pc = "returned"
    /\ op \in {"new_file", "get", "set", "update", "remove"}
    /\ st' = NoStore
    /\ res' = NoRes
    /\ op' = "none"
    /\ arg' = NoArg
    /\ calls' = <<>>
    /\ pc' = "idle"
    /\ UNCHANGED <<data, left, lastset>>

\* the library on byte streams
Next ==
    CheckPrefix \/ LoadIndex \/ FromVec \/ FromFile \/ NewVectored \/ NewFile \/ Reopen

Spec == Init /\ [][Next]_vars

\* the kvrs binary on a data file
InitCli == Start(<<>>)

NextCli == NewFile \/ Get \/ Set \/ Update \/ Remove \/ Exit

SpecCli == InitCli /\ [][NextCli]_vars

(***************************************************************************)
(* Reading a stream byte by byte, for the properties below                 *)
(***************************************************************************)
\* the number 8 big-endian bytes stand for, or -1 when it is 2^31 or more
BeNat(bs) ==
    IF bs[1] = 0 /\ bs[2] = 0 /\ bs[3] = 0 /\ bs[4] = 0 /\ bs[5] < 128
    THEN (bs[5] * 16777216) + (bs[6] * 65536) + (bs[7] * 256) + bs[8]
    ELSE -1

\* the first 9 bytes pass: the identifier, then a version of at most 1
ValidPrefix(d) ==
    /\ Len(d) >= 9
    /\ SubSeq(d, 1, 8) = <<196, 183, 209, 181, 197, 151, 197, 161>>
    /\ d[9] <= 1

\* the index offset P recorded at bytes 9..17 (-1: none, or 2^31 and more)
IndexPos(d) == IF Len(d) >= 17 THEN BeNat(SubSeq(d, 10, 17)) ELSE -1

\* the 8 bytes of the index length L are there
LenReadable(d) == IndexPos(d) >= 0 /\ IndexPos(d) + 8 <= Len(d)

RecLen(d) == BeNat(SubSeq(d, IndexPos(d) + 1, IndexPos(d) + 8))

Avail(d) == Len(d) - (IndexPos(d) + 8)

IndexPayload(d) == SubSeq(d, IndexPos(d) + 9, IndexPos(d) + 8 + RecLen(d))

\* fewer than L bytes follow the length
Truncated(d) == LenReadable(d) /\ (RecLen(d) < 0 \/ RecLen(d) > Avail(d))

\* the L bytes are there and postcard does not decode them
Corrupt(d) ==
    /\ LenReadable(d)
    /\ RecLen(d) >= 0
    /\ RecLen(d) <= Avail(d)
    /\ ~from_bytes_index(IndexPayload(d)).ok

\* d holds, at the recorded offset, the length of ix as serialized and then
\* ix as serialized
HoldsIndex(d, ix) ==
    /\ LenReadable(d)
    /\ RecLen(d) = Len(to_allocvec_index(ix))
    /\ RecLen(d) <= Avail(d)
    /\ IndexPayload(d) = to_allocvec_index(ix)

\* the vacant blocks list offset F recorded at bytes 17..25
VbListPosOf(d) == IF Len(d) >= 25 THEN BeNat(SubSeq(d, 18, 25)) ELSE -1

\* a length-prefixed vacant blocks list that decodes lies at F
FreeListReadable(d) ==
    LET f == VbListPosOf(d) IN
    /\ f >= 0
    /\ f + 8 <= Len(d)
    /\ LET m == BeNat(SubSeq(d, f + 1, f + 8)) IN
       /\ m >= 0
       /\ f + 8 + m <= Len(d)
       /\ from_bytes_vb_list(SubSeq(d, f + 9, f + 8 + m)).ok

IsOpen == op \in {"from_vec", "from_file"}

(***************************************************************************)
(* Properties                                                              *)
(***************************************************************************)
\* C1: on a stream of at least 9 bytes check_prefix returns Ok(v) when the
\* first 8 bytes are c4 b7 d1 b5 c5 97 c5 a1 and byte 8 is v <= 1,
\* IncorrectVersion(v) when they are and v > 1, and MissedIdentifier for any
\* other 8 bytes, whatever the version byte and the bytes after it.
C1_CheckPrefix ==
    (op = "check_prefix" /\ Len(data) >= 9) =>
        IF SubSeq(data, 1, 8) = <<196, 183, 209, 181, 197, 151, 197, 161>>
        THEN IF data[9] <= 1
             THEN res.tag = "Ok" /\ res.val = data[9]
             ELSE res.tag = "Err" /\ res.err = IncorrectVersion(data[9])
        ELSE res.tag = "Err" /\ res.err = MissedIdentifier

\* the identifier, version 123 and bytes after them were checked
C1_Witness ==
    /\ op = "check_prefix"
    /\ Len(data) > 9
    /\ SubSeq(data, 1, 8) = <<196, 183, 209, 181, 197, 151, 197, 161>>
    /\ data[9] = 123
    /\ res.err = IncorrectVersion(123)

\* C2: creating a store on an empty backend writes the identifier, version 1,
\* the index offset 25, the vacant blocks list offset 25 + 8 + len(index) = 34,
\* the length-prefixed empty index at 25 and the length-prefixed empty vacant
\* blocks list at 34, 43 bytes in all, with nothing between the header and
\* the sections, nothing after them, and the sections not overlapping.
C2_Initialize ==
    op \in {"new_vectored", "new_file"} =>
        LET b == st.inner.buf IN
        /\ res.tag = "Ok"
        /\ b = <<196, 183, 209, 181, 197, 151, 197, 161, 1,
                 0, 0, 0, 0, 0, 0, 0, 25, 0, 0, 0, 0, 0, 0, 0, 34,
                 0, 0, 0, 0, 0, 0, 0, 1, 0, 0, 0, 0, 0, 0, 0, 0, 1, 0>>
        /\ Len(b) = 43
        /\ IndexPos(b) = 25
        /\ HoldsIndex(b, <<>>)
        /\ VbListPosOf(b) = IndexPos(b) + 8 + RecLen(b)
        /\ FreeListReadable(b)
        /\ VbListPosOf(b) + 8 + BeNat(SubSeq(b, VbListPosOf(b) + 1, VbListPosOf(b) + 8)) = Len(b)

\* a store was created in memory
C2_Witness == op = "new_vectored" /\ res.tag = "Ok" /\ Len(st.inner.buf) > 0 /\ data = <<>>

\* C3: opening the bytes of a freshly created store succeeds and, both
\* streams rewound, yields a handle equal to the created one: the same
\* bytes, the same empty index, version 1.
C3_CreateOpenRoundTrip ==
    (op = "reopen" /\ calls[1] = "initialize") =>
        /\ res.tag = "Ok"
        /\ StorageEq(left, st)
        /\ left.inner.buf = st.inner.buf
        /\ left.inner.pos = <<0, 0, 0, 0>>
        /\ left.index = <<>>
        /\ left.version = 1

\* a created store was reopened
C3_Witness == op = "reopen" /\ calls[1] = "initialize" /\ left # NoStore

\* C4: when the stream holds at bytes 9..17 an offset P, at P the length of
\* a serialized index and at P + 8 that serialized index, load_index returns
\* a mapping equal to the index, whatever bytes follow the payload.
C4_LoadIndexRoundTrip ==
    op = "load_index" =>
        \A ix \in Indices :
            HoldsIndex(data, ix) => res.tag = "Ok" /\ IndexEq(res.val, ix) /\ Len(res.val) = Len(ix)

\* an index of two entries, one at position u64::MAX, was loaded with bytes
\* following its payload
C4_Witness ==
    /\ op = "load_index"
    /\ res.tag = "Ok"
    /\ \E ix \in Indices :
          /\ Len(ix) = 2
          /\ ix[2][2] = U64Max
          /\ HoldsIndex(data, ix)
          /\ Avail(data) > RecLen(data)

\* C5 as stated: load_index fails with FailedLoadIndex both when the payload
\* is corrupt and when fewer than L bytes follow the length L.
C5_Original ==
    (op = "load_index" /\ (Corrupt(data) \/ Truncated(data))) => res = Err(FailedLoadIndex)

\* C5 amended: load_index fails with FailedLoadIndex exactly when the length L
\* and all L payload bytes were read and postcard does not decode them; when
\* fewer than L bytes follow the length the result is never FailedLoadIndex,
\* and for an L below 2^31 it is IO(UnexpectedEof).
C5_FailedLoadIndex ==
    op = "load_index" =>
        /\ Corrupt(data) => res = Err(FailedLoadIndex)
        /\ Truncated(data) =>
              /\ res # Err(FailedLoadIndex)
              /\ RecLen(data) >= 0 => res = Err(IO("UnexpectedEof"))
        /\ res = Err(FailedLoadIndex) => Corrupt(data)

\* a payload one byte short of its recorded length was loaded
C5_Witness ==
    /\ op = "load_index"
    /\ Truncated(data)
    /\ RecLen(data) = Avail(data) + 1
    /\ res = Err(IO("UnexpectedEof"))

C7_KeyNotFound ==
    (op \in {"update", "remove"}
       /\ \A o \in from_file(data) : o.res.tag = "Ok" /\ ~HasKey(o.res.val.index, arg.key))
    => res.tag = "Err" /\ res.err.kind = "KeyNotFound"

\* C8 as stated: get of a key returns the value last set for it.
C8_SetGetRoundTrip ==
    (op = "get" /\ lastset.given /\ lastset.key = arg.key)
    => res.tag = "Ok" /\ res.val = lastset.value

\* C10: open checks the prefix before it reads any footer: when the first 9
\* bytes fail validation the result is the DataFormat error, whatever the
\* index offset, length and payload are, and load_index runs only after
\* check_prefix has succeeded.
C10_PrefixBeforeIndex ==
    IsOpen =>
        /\ calls[1] = "check_prefix"
        /\ (\E i \in DOMAIN calls : calls[i] = "load_index") => ValidPrefix(data)
        /\ (Len(data) >= 9 /\ ~ValidPrefix(data)) =>
              /\ res.tag = "Err"
              /\ res.err.kind = "DataFormat"
              /\ calls = <<"check_prefix">>

\* a stream with a wrong prefix and an index section that cannot be loaded
\* was opened
C10_Witness ==
    /\ IsOpen
    /\ Len(data) >= 9
    /\ ~ValidPrefix(data)
    /\ \A r \in load_index(Cursor(data)) : r.tag # "Ok"
    /\ res.err.kind = "DataFormat"

====
